---- MODULE Spec2Model ----
(***************************************************************************)
(* Weighted doubly robust learning (wdrl_sim.ipynb): the combination       *)
(* enumerator, the with/without split and its positional pairing, the      *)
(* per-pair contrast, the weighted aggregation and the per-treatment loop  *)
(* of calculate_ate.                                                       *)
(*                                                                         *)
(* Strings are sequences of one-character strings, so that ''.join and the *)
(* substring test `treatment in comb` are computed, not assumed.  The      *)
(* fitted models of the regression library are terms that record what they *)
(* were fitted on and what they were applied to.                           *)
(***************************************************************************)
EXTENDS Integers, Sequences, FiniteSets, TLC

VARIABLES
    pc,             \* position in the running cell / function
    treatments,     \* the list of treatment labels
    C,              \* the list of combination codes
    df_train,       \* the training frame: [columns, rows]
    treatment_prob, \* value_counts(normalize=True).to_dict()
    X,              \* df_train without y, t and the treatment columns
    results,        \* calculate_ate's local mapping treatment -> ATE
    ti,             \* position of the treatment loop in `treatments`
    W_k, S__k,      \* combinations with / without the current treatment
    pairs,          \* zip(W_k, S__k)
    pi,             \* position of the pair loop in `pairs`
    y_hat_dr_list,  \* projected DR score columns of the current treatment
    df_subset,      \* the per-pair copy of the two arms' rows
    dr_df,          \* the score table handed to the aggregator
    aggregated,     \* what compute_weighted_dr_scores returned
    error,          \* the exception that ended the run, or NoError
    returned        \* what calculate_ate returned, or NoResult

vars == <<pc, treatments, C, df_train, treatment_prob, X, results, ti, W_k, S__k,
          pairs, pi, y_hat_dr_list, df_subset, dr_df, aggregated, error, returned>>

\* ------------------------------------------------------------------ bounds

\* Largest treatment set the enumerator and the pairing are checked on.
MaxM == 4

\* Largest number of training units that share one treatment combination.
MaxCount == 1

\* ----------------------------------------------------------------- strings

\* One-character strings that may serve as treatment labels.
Alphabet == <<"A", "B", "C", "D", "E", "F">>

\* The single-character label made of letter c.
Label(c) == <<c>>

Max(S) == CHOOSE x \in S : \A y \in S : y <= x

RECURSIVE SumSeq(_)
SumSeq(s) == IF s = <<>> THEN 0 ELSE Head(s) + SumSeq(Tail(s))

Range(s) == {s[i] : i \in 1..Len(s)}

\* ''.join(parts): the parts' characters, one after the other.
RECURSIVE Join(_)
Join(parts) == IF parts = <<>> THEN <<>> ELSE Head(parts) \o Join(Tail(parts))

\* Python's `sub in text` on strings: sub occurs in text as a substring.
StartsWith_at(sub, text, i) ==
    /\ i + Len(sub) - 1 <= Len(text)
    /\ \A j \in 1..Len(sub) : text[i + j - 1] = sub[j]

\* Variant: text.startswith(sub).
InStr_prefix(sub, text) == StartsWith_at(sub, text, 1)

InStr(sub, text) == \E i \in 1..(Len(text) + 1) : StartsWith_at(sub, text, i)

\* -------------------------------------------------------------- enumerator

\* itertools.combinations(pool, r): the positions that can still advance.
Pivots(indices, n, r) == {i \in 1..r : indices[i] # i + n - r}

\* indices[i] += 1, and every later index follows its left neighbour.
Advance(indices, i, r) ==
    [j \in 1..r |-> IF j < i THEN indices[j] ELSE indices[i] + 1 + (j - i)]

RECURSIVE CombinationsLoop(_, _, _, _)
CombinationsLoop(pool, r, indices, acc) ==
    LET n   == Len(pool)
        out == Append(acc, [j \in 1..r |-> pool[indices[j]]])
        piv == Pivots(indices, n, r)
    IN  IF piv = {} THEN out
        ELSE CombinationsLoop(pool, r, Advance(indices, Max(piv), r), out)

combinations(pool, r) ==
    IF r > Len(pool) THEN <<>>
    ELSE CombinationsLoop(pool, r, [j \in 1..r |-> j], <<>>)

\* chain.from_iterable(combinations(pool, r) for r in range(lo, hi + 1))
RECURSIVE ChainCombinations(_, _, _)
ChainCombinations(pool, lo, hi) ==
    IF lo > hi THEN <<>>
    ELSE combinations(pool, lo) \o ChainCombinations(pool, lo + 1, hi)

\* Variant: the sizes range(1, len(TREATMENTS) + 1), without the empty tuple.
all_combinations_nonempty(pool) ==
    LET tuples == ChainCombinations(pool, 1, Len(pool))
    IN  [i \in 1..Len(tuples) |-> Join(tuples[i])]

\* The two statements that build all_combinations: the tuples of every size
\* 0..len(TREATMENTS), each joined into one string.
all_combinations(pool) ==
    LET tuples == ChainCombinations(pool, 0, Len(pool))
    IN  [i \in 1..Len(tuples) |-> Join(tuples[i])]

\* C = ['0' if i == '' else i for i in all_combinations]
CombinationCodes(pool) ==
    LET ac == all_combinations(pool)
    IN  [i \in 1..Len(ac) |-> IF ac[i] = <<>> THEN <<"0">> ELSE ac[i]]

\* ------------------------------------------------------------ split and zip

ContainsTreatment(treatment, comb) == InStr(treatment, comb)

\* Variant: [comb for comb in C if comb.startswith(treatment)].
WithTreatment_prefix(Cs, treatment) ==
    LET Has(comb) == InStr_prefix(treatment, comb) IN SelectSeq(Cs, Has)

\* W_k = [comb for comb in C if treatment in comb]
WithTreatment(Cs, treatment) ==
    LET Has(comb) == ContainsTreatment(treatment, comb) IN SelectSeq(Cs, Has)

\* S__k = [comb for comb in C if treatment not in comb]
WithoutTreatment(Cs, treatment) ==
    LET Lacks(comb) == ~ContainsTreatment(treatment, comb) IN SelectSeq(Cs, Lacks)

Min2(a, b) == IF a <= b THEN a ELSE b

\* zip(a, b): positional pairs, as many as the shorter list has.
Zip(a, b) == [i \in 1..Min2(Len(a), Len(b)) |-> [w |-> a[i], s |-> b[i]]]

\* --------------------------------------------------------------- the data

\* TREATMENTS = ['A', 'B', 'C']
TREATMENTS == <<Label("A"), Label("B"), Label("C")>>

NoError == "no error"
NoResult == "no result"

\* Column names.
ColX == <<"X">>
ColY == <<"y">>
ColT == <<"t">>
ColTBinary == <<"t", "_", "b", "i", "n", "a", "r", "y">>

\* f'T{t}'
TreatmentCol(t) == Join(<<Label("T"), t>>)

\* The row function handed to df.apply: the labels of the indicators that are
\* 1, joined, or '0' when there is none.
combine_treatments(row) ==
    LET a == IF row[TreatmentCol(Label("A"))] = 1 THEN <<Label("A")>> ELSE <<>>
        b == IF row[TreatmentCol(Label("B"))] = 1 THEN <<Label("B")>> ELSE <<>>
        c == IF row[TreatmentCol(Label("C"))] = 1 THEN <<Label("C")>> ELSE <<>>
        chosen == a \o b \o c
    IN  IF chosen # <<>> THEN Join(chosen) ELSE <<"0">>

\* One unit: its index label and its cells.  The covariates and the outcome of
\* unit `id` are the terms x(id) and y(id).
IndicatorCells(id, ta, tb, tc) ==
    (ColX :> <<"x", id>>) @@ (ColY :> <<"y", id>>) @@
    (TreatmentCol(Label("A")) :> ta) @@ (TreatmentCol(Label("B")) :> tb) @@
    (TreatmentCol(Label("C")) :> tc)

\* df['t'] = df.apply(combine_treatments, axis=1)
UnitRow(id, ta, tb, tc) ==
    LET cells == IndicatorCells(id, ta, tb, tc)
    IN  [id |-> id, cells |-> cells @@ (ColT :> combine_treatments(cells))]

\* The indicator triples, numbered 0..7.
NumPatterns == 2 ^ Len(TREATMENTS)
Bit(b, j) == (b \div (2 ^ (j - 1))) % 2

\* The rows of a frame with cnt[b] units of indicator pattern b.
RECURSIVE RowsFrom(_, _, _)
RowsFrom(b, cnt, nextId) ==
    IF b >= NumPatterns THEN <<>>
    ELSE [i \in 1..cnt[b] |->
             UnitRow(nextId + i - 1, Bit(b, 1), Bit(b, 2), Bit(b, 3))]
         \o RowsFrom(b + 1, cnt, nextId + cnt[b])

TrainColumns ==
    {ColX, ColY, ColT} \cup {TreatmentCol(TREATMENTS[j]) : j \in 1..Len(TREATMENTS)}

TrainFrame(cnt) == [columns |-> TrainColumns, rows |-> RowsFrom(0, cnt, 1)]

Index(frame) == {frame.rows[i].id : i \in 1..Len(frame.rows)}

\* df_train['t'].value_counts(normalize=True).to_dict(): every observed code
\* with its share of the rows, kept as the fraction <<count, rows>>.
value_counts_normalized(frame) ==
    LET n == Len(frame.rows)
        observed == {frame.rows[i].cells[ColT] : i \in 1..n}
    IN  [code \in observed |->
            <<Cardinality({i \in 1..n : frame.rows[i].cells[ColT] = code}), n>>]

\* ------------------------------------------------------------ frame methods

\* frame.drop(columns=cols): a new frame without these columns.
Drop(frame, cols) ==
    [columns |-> frame.columns \ cols,
     rows |-> [i \in 1..Len(frame.rows) |->
                 [id |-> frame.rows[i].id,
                  cells |-> [c \in (DOMAIN frame.rows[i].cells) \ cols |->
                                frame.rows[i].cells[c]]]]]

\* frame.query('t == @w_k | t == @s__k'): a new frame of the matching rows.
Query(frame, w_k, s__k) ==
    LET Match(row) == row.cells[ColT] = w_k \/ row.cells[ColT] = s__k
    IN  [columns |-> frame.columns, rows |-> SelectSeq(frame.rows, Match)]

\* Variant: np.where(df_subset['t'] == s__k, 1, 0).
ArmIndicator_swapped(t, w_k, s__k) == IF t = s__k THEN 1 ELSE 0

\* np.where(df_subset['t'] == w_k, 1, 0)
ArmIndicator(t, w_k, s__k) == IF t = w_k THEN 1 ELSE 0

\* frame['t_binary'] = np.where(frame['t'] == w_k, 1, 0)
AssignTBinary(frame, w_k, s__k) ==
    [columns |-> frame.columns \cup {ColTBinary},
     rows |-> [i \in 1..Len(frame.rows) |->
                 [id |-> frame.rows[i].id,
                  cells |-> (ColTBinary :>
                                ArmIndicator(frame.rows[i].cells[ColT], w_k, s__k))
                            @@ frame.rows[i].cells]]]

\* Variant: the column is written to df_train before the query.
SubsetWithArm_inplace(train, w_k, s__k) ==
    [train  |-> AssignTBinary(train, w_k, s__k),
     subset |-> AssignTBinary(Query(train, w_k, s__k), w_k, s__k)]

\* df_subset = df_train.query(...).copy(); df_subset['t_binary'] = ...
\* The column is written to the copy; the frame queried stays as it was.
SubsetWithArm(train, w_k, s__k) ==
    [train  |-> train,
     subset |-> AssignTBinary(Query(train, w_k, s__k), w_k, s__k)]

\* The ids of the rows of `frame` whose t_binary is v.
Arm(frame, v) ==
    {frame.rows[i].id : i \in {j \in 1..Len(frame.rows) :
                                  frame.rows[j].cells[ColTBinary] = v}}

\* ------------------------------------------------------- the fitted models

\* LogisticRegression(penalty=None).fit(X, T): the fit needs samples of both
\* classes; T_treated is the list of arm indicators of the subset's rows.
FitClassifier(T_treated) ==
    IF 0 \in Range(T_treated) /\ 1 \in Range(T_treated) THEN NoError
    ELSE "ValueError"

\* LinearRegression().fit(X[T == v], y[T == v]): the fit needs one sample.
FitRegressor(T_treated, v) ==
    IF v \in Range(T_treated) THEN NoError ELSE "ValueError"

\* Variant: fits that accept any sample.
PairFitError_unchecked(T_treated) == NoError

\* calculate_propensity_scores followed by calculate_doubly_robust_scores:
\* the first exception raised, if any.
PairFitError(T_treated) ==
    IF FitClassifier(T_treated) # NoError THEN FitClassifier(T_treated)
    ELSE IF FitRegressor(T_treated, 0) # NoError THEN FitRegressor(T_treated, 0)
    ELSE FitRegressor(T_treated, 1)

\* Variant: y_hat_dr = dr_model.predict(X_treated).
ProjectedScores_subset(Xfull, X_treated, subset) ==
    [index   |-> Index(X_treated),
     fitted  |-> Index(X_treated),
     treated |-> Arm(subset, 1)]

\* dr_model = LinearRegression().fit(X_treated, dr_scores);
\* y_hat_dr = dr_model.predict(X): one score per row of X, from a model fitted
\* on the subset's rows with the subset's arms.
ProjectedScores(Xfull, X_treated, subset) ==
    [index   |-> Index(Xfull),
     fitted  |-> Index(X_treated),
     treated |-> Arm(subset, 1)]

\* pd.DataFrame({w_k: scores for w_k, scores in zip(W_k, y_hat_dr_list)}):
\* the columns in the order of their first key, a later value replacing an
\* earlier one of the same key.
ScoreTable(keys, columns) ==
    LET n == Min2(Len(keys), Len(columns))
        first == {i \in 1..n : \A j \in 1..(i - 1) : keys[j] # keys[i]}
        IsFirst(i) == i \in first
        order == SelectSeq([i \in 1..n |-> i], IsFirst)
    IN  [columns |-> [i \in 1..Len(order) |-> keys[order[i]]],
         data |-> [key \in {keys[i] : i \in 1..n} |->
                      columns[Max({i \in 1..n : keys[i] = key})]]]

\* ------------------------------------------------------------- aggregation

\* [col for col in dr_scores.columns if col in treatment_prob]
ValidColumns(dr_scores, prob) ==
    LET Known(col) == col \in DOMAIN prob IN SelectSeq(dr_scores.columns, Known)

\* Variant: sum(treatment_prob.values()), the whole table.
Total_table(valid, prob) ==
    IF DOMAIN prob = {} THEN [num |-> 0, den |-> 1]
    ELSE LET any == CHOOSE c \in DOMAIN prob : TRUE
         IN  [num |-> prob[any][2], den |-> prob[any][2]]

\* sum(valid_weights.values()): 0 for no weight, else the fractions' sum (they
\* share the denominator, the number of training rows).
Total(valid, prob) ==
    IF valid = <<>> THEN [num |-> 0, den |-> 1]
    ELSE [num |-> SumSeq([i \in 1..Len(valid) |-> prob[valid[i]][1]]),
          den |-> prob[valid[1]][2]]

\* sum(dr_scores[col] * w for col, w in valid_weights.items()): the integer 0
\* for no term, else a series.
WeightedSum(dr_scores, valid, prob) ==
    IF valid = <<>> THEN [kind |-> "int", terms |-> <<>>]
    ELSE [kind |-> "series",
          terms |-> [i \in 1..Len(valid) |->
                       [col |-> valid[i],
                        scores |-> dr_scores.data[valid[i]],
                        w |-> [num |-> prob[valid[i]][1], den |-> prob[valid[i]][2]]]]]

\* Variant: a division that yields nan on a zero divisor, whatever the operands.
TrueDiv_nan(weighted_sum, total) ==
    IF total.num = 0
    THEN [error |-> NoError, value |-> [kind |-> "nan", terms |-> <<>>, total |-> total]]
    ELSE [error |-> NoError,
          value |-> [kind |-> "series", terms |-> weighted_sum.terms, total |-> total]]

\* weighted_sum / total: Python's int / int raises on a zero divisor, a series
\* divided by zero holds nan or inf.
TrueDiv(weighted_sum, total) ==
    IF total.num = 0
    THEN IF weighted_sum.kind = "int"
         THEN [error |-> "ZeroDivisionError",
               value |-> [kind |-> "none", terms |-> <<>>, total |-> total]]
         ELSE [error |-> NoError,
               value |-> [kind |-> "nan", terms |-> <<>>, total |-> total]]
    ELSE [error |-> NoError,
          value |-> [kind |-> "series", terms |-> weighted_sum.terms, total |-> total]]

compute_weighted_dr_scores(dr_scores, prob) ==
    LET valid == ValidColumns(dr_scores, prob)
    IN  TrueDiv(WeightedSum(dr_scores, valid, prob), Total(valid, prob))

\* ate_model = LinearRegression().fit(X, aggregated_dr_scores);
\* ate = np.mean(ate_model.predict(X))
AteOf(Xfull, scores) == [target |-> scores, over |-> Index(Xfull)]

\* ----------------------------------------------------------- calculate_ate

EmptyMap == <<>>
EmptyFrame == [columns |-> {}, rows |-> <<>>]
EmptyTable == [columns |-> <<>>, data |-> <<>>]
NoValue == [kind |-> "none", terms |-> <<>>, total |-> [num |-> 0, den |-> 1]]
NotCalled == [error |-> NoError, value |-> NoValue]
NotReturned == [kind |-> NoResult, map |-> EmptyMap]

\* treatment_cols = [f'T{t}' for t in treatments]
treatment_cols == {TreatmentCol(treatments[j]) : j \in 1..Len(treatments)}

\* Variant: y_hat_dr_list = [] before the treatment loop only.
NewScoreList_kept(previous) == previous

\* y_hat_dr_list = [] at the top of every pass of the treatment loop.
NewScoreList(previous) == <<>>

\* Variant: a handler around the pass that goes on with the next treatment.
OnException_skip(err, t) == [pc |-> "treatment", error |-> NoError, ti |-> t + 1]

\* No statement of calculate_ate handles an exception: one raised inside the
\* loops leaves both loops and the function.
OnException(err, t) == [pc |-> "raised", error |-> err, ti |-> t]

\* The two statements before the treatment loop.
Start ==
    /\ pc = "start"
    /\ X' = Drop(df_train, {ColY, ColT} \cup treatment_cols)
    /\ results' = EmptyMap
    /\ ti' = 1
    /\ pc' = "treatment"
    /\ UNCHANGED <<treatments, C, df_train, treatment_prob, W_k, S__k, pairs, pi,
                   y_hat_dr_list, df_subset, dr_df, aggregated, error, returned>>

\* The head of one pass of the treatment loop: the split, the empty score list
\* and the zip the pair loop runs over.
BeginTreatment ==
    /\ pc = "treatment"
    /\ ti <= Len(treatments)
    /\ W_k' = WithTreatment(C, treatments[ti])
    /\ S__k' = WithoutTreatment(C, treatments[ti])
    /\ pairs' = Zip(W_k', S__k')
    /\ y_hat_dr_list' = NewScoreList(y_hat_dr_list)
    /\ pi' = 1
    /\ pc' = "pair"
    /\ UNCHANGED <<treatments, C, df_train, treatment_prob, X, results, ti,
                   df_subset, dr_df, aggregated, error, returned>>

\* One pass of the pair loop.
ProcessPair ==
    /\ pc = "pair"
    /\ pi <= Len(pairs)
    /\ LET w_k == pairs[pi].w
           s__k == pairs[pi].s
           made == SubsetWithArm(df_train, w_k, s__k)
           X_treated == Drop(made.subset, {ColY, ColT, ColTBinary} \cup treatment_cols)
           T_treated == [i \in 1..Len(made.subset.rows) |->
                            made.subset.rows[i].cells[ColTBinary]]
           err == PairFitError(T_treated)
           out == OnException(err, ti)
       IN  /\ df_train' = made.train
           /\ df_subset' = made.subset
           /\ IF err = NoError
              THEN /\ y_hat_dr_list' =
                         Append(y_hat_dr_list, ProjectedScores(X, X_treated, made.subset))
                   /\ pi' = pi + 1
                   /\ UNCHANGED <<pc, error, ti>>
              ELSE /\ pc' = out.pc
                   /\ error' = out.error
                   /\ ti' = out.ti
                   /\ UNCHANGED <<y_hat_dr_list, pi>>
    /\ UNCHANGED <<treatments, C, treatment_prob, X, results, W_k, S__k, pairs,
                   dr_df, aggregated, returned>>

\* After the pair loop: the score table, its aggregation, the final regression
\* and the entry of the results mapping.
Aggregate ==
    /\ pc = "pair"
    /\ pi > Len(pairs)
    /\ LET table == ScoreTable(W_k, y_hat_dr_list)
           agg == compute_weighted_dr_scores(table, treatment_prob)
           out == OnException(agg.error, ti)
       IN  /\ dr_df' = table
           /\ aggregated' = agg
           /\ IF agg.error = NoError
              THEN /\ results' = (treatments[ti] :> AteOf(X, agg.value)) @@ results
                   /\ ti' = ti + 1
                   /\ pc' = "treatment"
                   /\ UNCHANGED error
              ELSE /\ pc' = out.pc
                   /\ error' = out.error
                   /\ ti' = out.ti
                   /\ UNCHANGED results
    /\ UNCHANGED <<treatments, C, df_train, treatment_prob, X, W_k, S__k, pairs, pi,
                   y_hat_dr_list, df_subset, returned>>

\* return results
Return ==
    /\ pc = "treatment"
    /\ ti > Len(treatments)
    /\ returned' = [kind |-> "dict", map |-> results]
    /\ pc' = "done"
    /\ UNCHANGED <<treatments, C, df_train, treatment_prob, X, results, ti, W_k, S__k,
                   pairs, pi, y_hat_dr_list, df_subset, dr_df, aggregated, error>>

\* The orders in which a caller may list the treatments.
Orderings(labels) ==
    {p \in [1..Len(labels) -> Range(labels)] : Range(p) = Range(labels)}

\* The cells before the call: the frame with its label column, the weights,
\* the combination list, and the call calculate_ate(df_train, C, treatment_prob,
\* treatments).
Init ==
    /\ \E cnt \in [0..(NumPatterns - 1) -> 0..MaxCount] :
          /\ df_train = TrainFrame(cnt)
          /\ treatment_prob = value_counts_normalized(TrainFrame(cnt))
    /\ C = CombinationCodes(TREATMENTS)
    /\ treatments \in Orderings(TREATMENTS)
    /\ pc = "start"
    /\ X = EmptyFrame
    /\ results = EmptyMap
    /\ ti = 0
    /\ W_k = <<>>
    /\ S__k = <<>>
    /\ pairs = <<>>
    /\ pi = 0
    /\ y_hat_dr_list = <<>>
    /\ df_subset = EmptyFrame
    /\ dr_df = EmptyTable
    /\ aggregated = NotCalled
    /\ error = NoError
    /\ returned = NotReturned

Next == Start \/ BeginTreatment \/ ProcessPair \/ Aggregate \/ Return

Spec == Init /\ [][Next]_vars

\* ------------------------------------------- the enumerator cell on its own

\* The lists of distinct single-character labels a treatment set may be.
TreatmentLists ==
    UNION {{p \in [1..m -> {Label(Alphabet[a]) : a \in 1..MaxM}] :
               \A i, j \in 1..m : i # j => p[i] # p[j]} : m \in 1..MaxM}

\* The cell that builds C from the treatment list.
Enumerate ==
    /\ pc = "enumerate"
    /\ C' = CombinationCodes(treatments)
    /\ pc' = "treatment"
    /\ UNCHANGED <<treatments, df_train, treatment_prob, X, results, ti, W_k, S__k,
                   pairs, pi, y_hat_dr_list, df_subset, dr_df, aggregated, error,
                   returned>>

InitEnum ==
    /\ treatments \in TreatmentLists
    /\ ti \in 1..Len(treatments)
    /\ pc = "enumerate"
    /\ C = <<>>
    /\ df_train = EmptyFrame
    /\ treatment_prob = EmptyMap
    /\ X = EmptyFrame
    /\ results = EmptyMap
    /\ W_k = <<>>
    /\ S__k = <<>>
    /\ pairs = <<>>
    /\ pi = 0
    /\ y_hat_dr_list = <<>>
    /\ df_subset = EmptyFrame
    /\ dr_df = EmptyTable
    /\ aggregated = NotCalled
    /\ error = NoError
    /\ returned = NotReturned

NextEnum == Enumerate \/ BeginTreatment

\* The enumeration of C for any treatment list, then the split and the zip of
\* one treatment of it.
SpecEnum == InitEnum /\ [][NextEnum]_vars

\* ------------------------------------- compute_weighted_dr_scores on its own

\* A score table with one full-population column per combination in keys.
TableOver(frame, keys) ==
    ScoreTable(keys, [i \in 1..Len(keys) |->
                        [index |-> Index(frame), fitted |-> {}, treated |-> {}]])

\* aggregated_dr_scores = compute_weighted_dr_scores(dr_df, treatment_prob)
CallWeighted ==
    /\ pc = "aggregate"
    /\ aggregated' = compute_weighted_dr_scores(dr_df, treatment_prob)
    /\ error' = aggregated'.error
    /\ pc' = "aggregated"
    /\ UNCHANGED <<treatments, C, df_train, treatment_prob, X, results, ti, W_k, S__k,
                   pairs, pi, y_hat_dr_list, df_subset, dr_df, returned>>

InitWeighted ==
    /\ \E cnt \in [0..(NumPatterns - 1) -> 0..MaxCount] :
          /\ df_train = TrainFrame(cnt)
          /\ treatment_prob = value_counts_normalized(TrainFrame(cnt))
    /\ C = CombinationCodes(TREATMENTS)
    /\ treatments = TREATMENTS
    /\ ti \in 1..Len(treatments)
    /\ W_k = WithTreatment(C, treatments[ti])
    /\ S__k = WithoutTreatment(C, treatments[ti])
    /\ dr_df = TableOver(df_train, W_k)
    /\ pc = "aggregate"
    /\ X = EmptyFrame
    /\ results = EmptyMap
    /\ pairs = <<>>
    /\ pi = 0
    /\ y_hat_dr_list = <<>>
    /\ df_subset = EmptyFrame
    /\ aggregated = NotCalled
    /\ error = NoError
    /\ returned = NotReturned

NextWeighted == CallWeighted

\* The aggregator called on the score table of any treatment, with the weights
\* of any training frame, whether or not every combination occurs in it.
SpecWeighted == InitWeighted /\ [][NextWeighted]_vars

\* ------------------------------------------------- what the claims speak of

\* The canonical code of a subset S of the labels: its labels in the order of
\* the treatment list, or '0' for the empty subset.
Encode(S, labels) ==
    LET In(l) == l \in S
        chosen == SelectSeq(labels, In)
    IN  IF chosen = <<>> THEN <<"0">> ELSE Join(chosen)

\* The subset a code stands for.
Decode(code, labels) == CHOOSE S \in SUBSET Range(labels) : Encode(S, labels) = code

\* The positions, ascending, of a subset's labels in the treatment list.
Positions(S, labels) ==
    LET In(p) == labels[p] \in S IN SelectSeq([p \in 1..Len(labels) |-> p], In)

LexLess(a, b) ==
    \E i \in 1..Min2(Len(a), Len(b)) :
        a[i] < b[i] /\ \A j \in 1..(i - 1) : a[j] = b[j]

\* Subset size first, then lexicographic in the positions.
ComesBefore(a, b) == Len(a) < Len(b) \/ (Len(a) = Len(b) /\ LexLess(a, b))

Injective(s) == \A i, j \in 1..Len(s) : i # j => s[i] # s[j]

\* C2: the enumerator returns exactly 2^m pairwise distinct codes, one per
\* subset of the treatment list, the empty subset as '0' and every other one as
\* its labels in treatment-list order, listed by subset size and then
\* lexicographically.
C2_Enumeration ==
    pc # "enumerate" =>
        LET m == Len(treatments)
            subsets == SUBSET Range(treatments)
        IN  /\ Len(C) = 2 ^ m
            /\ Injective(C)
            /\ Range(C) = {Encode(S, treatments) : S \in subsets}
            /\ \A S, T \in subsets :
                   Encode(S, treatments) = Encode(T, treatments) => S = T
            /\ \A S \in subsets : (Encode(S, treatments) = <<"0">>) <=> (S = {})
            /\ \A i, j \in 1..Len(C) :
                   i < j => ComesBefore(Positions(Decode(C[i], treatments), treatments),
                                        Positions(Decode(C[j], treatments), treatments))

\* C2's case: the list of a set of three labels given out of alphabetical order.
C2_Witness ==
    /\ pc # "enumerate"
    /\ Len(treatments) = 3
    /\ treatments[1] = Label("C")
    /\ Len(C) = 8

\* C1: zip pairs every combination w that contains k with w \ {k}; every
\* with-k and every without-k combination is in exactly one pair, and the two
\* lists partition the combination list.
C1_PairingBijection ==
    pc = "pair" =>
        LET k == treatments[ti]
        IN  /\ Len(pairs) = Len(W_k)
            /\ Len(pairs) = Len(S__k)
            /\ \A i \in 1..Len(pairs) :
                   /\ pairs[i].w = W_k[i]
                   /\ pairs[i].s = S__k[i]
                   /\ k \in Decode(pairs[i].w, treatments)
                   /\ Decode(pairs[i].s, treatments) =
                          Decode(pairs[i].w, treatments) \ {k}
            /\ Injective(W_k)
            /\ Injective(S__k)
            /\ Range(W_k) \cap Range(S__k) = {}
            /\ Range(W_k) \cup Range(S__k) = Range(C)
            /\ Range(W_k) = {Encode(S, treatments) :
                                S \in {T \in SUBSET Range(treatments) : k \in T}}
            /\ Range(S__k) = {Encode(S, treatments) :
                                 S \in {T \in SUBSET Range(treatments) : k \notin T}}

\* C1's case: a middle treatment of a four-label set, eight pairs.
C1_Witness ==
    /\ pc = "pair"
    /\ Len(treatments) = 4
    /\ ti = 2
    /\ Len(pairs) = 8

\* The training units and those of one combination.
TrainIds == Index(df_train)

UnitsWith(code) ==
    {df_train.rows[i].id :
        i \in {j \in 1..Len(df_train.rows) : df_train.rows[j].cells[ColT] = code}}

LabelOf(id) ==
    LET i == CHOOSE j \in 1..Len(df_train.rows) : df_train.rows[j].id = id
    IN  df_train.rows[i].cells[ColT]

\* A matched pair one of whose arms has no training unit.
EmptyArm(pair) == UnitsWith(pair.w) = {} \/ UnitsWith(pair.s) = {}

\* The matched pairs of treatment k over the combination list.
PairsOf(k) == Zip(WithTreatment(C, k), WithoutTreatment(C, k))

\* C9: a pair's model is fitted on the units of its two combinations only, and
\* its column holds one projected score for every training unit; the score
\* table has one such column per matched pair, keyed by the with-k combination.
C9_FullPopulationProjection ==
    /\ pc \in {"pair", "raised"} =>
           /\ Len(y_hat_dr_list) <= Len(pairs)
           /\ \A i \in 1..Len(y_hat_dr_list) :
                  /\ y_hat_dr_list[i].index = TrainIds
                  /\ y_hat_dr_list[i].fitted =
                         UnitsWith(pairs[i].w) \cup UnitsWith(pairs[i].s)
    /\ (pc = "treatment" /\ ti > 1) =>
           /\ dr_df.columns = W_k
           /\ Len(dr_df.columns) = Len(pairs)
           /\ \A i \in 1..Len(pairs) :
                  /\ dr_df.data[pairs[i].w].index = TrainIds
                  /\ dr_df.data[pairs[i].w].fitted =
                         UnitsWith(pairs[i].w) \cup UnitsWith(pairs[i].s)

\* C9's case: an aggregated treatment with a column that scores units its model
\* was not fitted on.
C9_Witness ==
    /\ pc = "treatment"
    /\ ti > 1
    /\ \E i \in 1..Len(pairs) :
           dr_df.data[pairs[i].w].fitted # dr_df.data[pairs[i].w].index

\* C10: for the treatment being processed, every training unit whose label is
\* in C is in the subset of exactly one matched pair, and there its t_binary is
\* 1 exactly when its combination contains the treatment (its label is w) and 0
\* exactly when it does not (its label is s).
C10_SubsetsPartitionUnits ==
    pc \in {"pair", "raised"} =>
        LET k == treatments[ti]
            done == IF pc = "raised" THEN pi ELSE pi - 1
        IN  /\ \A u \in {v \in TrainIds : LabelOf(v) \in Range(C)} :
                   Cardinality({i \in 1..Len(pairs) :
                                   LabelOf(u) \in {pairs[i].w, pairs[i].s}}) = 1
            /\ \A i \in 1..Len(y_hat_dr_list) :
                   /\ y_hat_dr_list[i].fitted =
                          {u \in TrainIds : LabelOf(u) \in {pairs[i].w, pairs[i].s}}
                   /\ y_hat_dr_list[i].treated =
                          {u \in y_hat_dr_list[i].fitted :
                              k \in Decode(LabelOf(u), TREATMENTS)}
            /\ done >= 1 =>
                   /\ Index(df_subset) =
                          {u \in TrainIds : LabelOf(u) \in {pairs[done].w, pairs[done].s}}
                   /\ \A r \in Range(df_subset.rows) :
                          /\ r.cells[ColTBinary] \in {0, 1}
                          /\ (r.cells[ColTBinary] = 1) <=> (r.cells[ColT] = pairs[done].w)
                          /\ (r.cells[ColTBinary] = 0) <=> (r.cells[ColT] = pairs[done].s)
                          /\ (r.cells[ColTBinary] = 1) <=>
                                 (k \in Decode(r.cells[ColT], TREATMENTS))

\* C10's case: the pair loop of a treatment has run over every pair of a frame
\* in which every combination occurs.
C10_Witness ==
    /\ pc = "pair"
    /\ pi > Len(pairs)
    /\ Len(y_hat_dr_list) = 4
    /\ Cardinality(TrainIds) >= 8

\* C8: no step of calculate_ate changes df_train, C, treatment_prob or the
\* treatments list; t_binary is a column of the per-pair copy only; and the
\* results mapping changes only by the entry of the treatment being processed.
C8_Frame ==
    [][/\ df_train' = df_train
       /\ C' = C
       /\ treatment_prob' = treatment_prob
       /\ treatments' = treatments
       /\ ColTBinary \notin df_train'.columns
       /\ ColTBinary \notin X'.columns
       /\ results' # results =>
              /\ pc = "pair"
              /\ DOMAIN results' = DOMAIN results \cup {treatments[ti]}
              /\ \A k \in DOMAIN results \ {treatments[ti]} : results'[k] = results[k]
      ]_vars

\* C8's case: a complete run, whose last pair wrote t_binary to its copy.
C8_Witness ==
    /\ pc = "done"
    /\ ColTBinary \in df_subset.columns
    /\ DOMAIN results = Range(treatments)

\* The terms of the aggregated score of treatment k, from the training frame
\* alone: one per combination w that contains k, the score column of the pair
\* (w, w \ {k}) with the count of w over the number of rows as its weight.
ExpectedTerms(k) ==
    {[col |-> w,
      scores |-> [index |-> TrainIds,
                  fitted |-> UnitsWith(w) \cup
                             UnitsWith(Encode(Decode(w, TREATMENTS) \ {k}, TREATMENTS)),
                  treated |-> UnitsWith(w)],
      w |-> [num |-> Cardinality(UnitsWith(w)), den |-> Cardinality(TrainIds)]] :
        w \in {c \in Range(C) : k \in Decode(c, TREATMENTS)}}

ExpectedTotal(k) ==
    [num |-> Cardinality({u \in TrainIds : k \in Decode(LabelOf(u), TREATMENTS)}),
     den |-> Cardinality(TrainIds)]

\* C7: the results mapping has one entry per treatment label, and the entry of
\* treatment k is a function of the training frame, C and the weights alone, so
\* it is the same whatever the order of the treatments list.
C7_TreatmentIndependence ==
    /\ \A k \in DOMAIN results :
           /\ results[k].over = TrainIds
           /\ results[k].target.kind = "series"
           /\ Range(results[k].target.terms) = ExpectedTerms(k)
           /\ Len(results[k].target.terms) = Cardinality(ExpectedTerms(k))
           /\ results[k].target.total = ExpectedTotal(k)
    /\ pc = "done" =>
           /\ returned.kind = "dict"
           /\ returned.map = results
           /\ DOMAIN returned.map = Range(TREATMENTS)

\* C7's case: a complete run over the treatments in reverse order.
C7_Witness ==
    /\ pc = "done"
    /\ treatments = <<Label("C"), Label("B"), Label("A")>>
    /\ DOMAIN returned.map = Range(TREATMENTS)

\* No projected score and no ATE comes from a matched pair with an empty arm.
NoScoreFromEmptyArm ==
    /\ pc \in {"pair", "raised"} =>
           \A i \in 1..Len(y_hat_dr_list) : ~EmptyArm(pairs[i])
    /\ \A k \in DOMAIN results :
           LET ps == PairsOf(k) IN \A i \in 1..Len(ps) : ~EmptyArm(ps[i])

\* A pair with an empty arm is never stepped over: the pair loop stands at the
\* first such pair or has stopped there.
StopsAtEmptyArm ==
    pc \in {"pair", "raised"} =>
        /\ \A i \in 1..Len(pairs) : EmptyArm(pairs[i]) => pi <= i
        /\ (pc = "raised") <=> (pi <= Len(pairs) /\ EmptyArm(pairs[pi]) /\ error # NoError)

SomeCombinationEmpty == \E i \in 1..Len(C) : UnitsWith(C[i]) = {}

\* The estimation of treatment k fails: one of its matched pairs has an empty arm.
Fails(k) == LET ps == PairsOf(k) IN \E i \in 1..Len(ps) : EmptyArm(ps[i])

ObservedColumns ==
    LET Seen(col) == UnitsWith(col) # {} IN SelectSeq(dr_df.columns, Seen)

\* C3: the weight of a with-k combination is its training count over the sum
\* of the counts of the with-k combinations that occur in training; the ones
\* that do not occur are in neither sum, and the weights add up to 1.
C3_WeightNormalization ==
    (pc = "aggregated" /\ aggregated.error = NoError) =>
        LET v == aggregated.value
            n == Cardinality(TrainIds)
        IN  /\ v.kind = "series"
            /\ [i \in 1..Len(v.terms) |-> v.terms[i].col] = ObservedColumns
            /\ \A i \in 1..Len(v.terms) :
                   /\ v.terms[i].w = [num |-> Cardinality(UnitsWith(v.terms[i].col)),
                                      den |-> n]
                   /\ v.terms[i].w.num > 0
                   /\ v.terms[i].scores = dr_df.data[v.terms[i].col]
            /\ v.total.den = n
            /\ v.total.num = SumSeq([i \in 1..Len(v.terms) |-> v.terms[i].w.num])
            /\ v.total.num > 0

\* C3's case: two with-k combinations occur in training and one does not.
C3_Witness ==
    /\ pc = "aggregated"
    /\ aggregated.error = NoError
    /\ Len(aggregated.value.terms) = 2
    /\ \E i \in 1..Len(dr_df.columns) : UnitsWith(dr_df.columns[i]) = {}

\* No column of the score table has a weight in the probability table.
NoValidWeight == \A i \in 1..Len(dr_df.columns) : dr_df.columns[i] \notin DOMAIN treatment_prob

====
